---------------------------- MODULE Spec2Model ----------------------------
(***************************************************************************)
(* ChangelogWatcher: per-source change detection (checkSource), the        *)
(* novelty filters and identifier comparators it is built from, and the    *)
(* CLI loop (main) that checks the configured sources and notifies Slack.  *)
(*                                                                         *)
(* Strings are TLA+ strings.  JavaScript null and undefined are the two    *)
(* sentinel strings Null and Undefined, which no page or store holds.      *)
(***************************************************************************)
EXTENDS Integers, Sequences, FiniteSets, TLC

Null == "<null>"
Undefined == "<undefined>"

(***************************************************************************)
(* Bounds of the model.                                                    *)
(***************************************************************************)
\* Longest list of headings / dated sections / posts on a fetched page.
MaxEntries == 2
\* CLI runs (process lifetimes of main) plus direct checkSource calls.
MaxRuns == 3

SeqUpTo(S, n) == UNION {[1..k -> S] : k \in 0..n}

Reverse(seq) == [i \in 1..Len(seq) |-> seq[Len(seq) + 1 - i]]

\* Array.prototype.slice(0, n)
Slice0(seq, n) == SubSeq(seq, 1, IF Len(seq) < n THEN Len(seq) ELSE n)

(***************************************************************************)
(* Strings as JavaScript sees them.                                        *)
(***************************************************************************)
\* The UTF-16 code units of the identifier strings the model compares.
Utf16(s) ==
    CASE s = "1.1.0" -> <<49, 46, 49, 46, 48>>
      [] s = "1.2.0" -> <<49, 46, 50, 46, 48>>
      [] s = "1.2.0 (2025-06-01)" -> <<49, 46, 50, 46, 48, 32, 40, 50, 48, 50, 53, 45, 48, 54, 45, 48, 49, 41>>
      [] s = "2025.01.10" -> <<50, 48, 50, 53, 46, 48, 49, 46, 49, 48>>
      [] s = "2025.01.17" -> <<50, 48, 50, 53, 46, 48, 49, 46, 49, 55>>
      [] s = "20250115093000" -> <<50, 48, 50, 53, 48, 49, 49, 53, 48, 57, 51, 48, 48, 48>>
      [] s = "January 30, 2026" -> <<74, 97, 110, 117, 97, 114, 121, 32, 51, 48, 44, 32, 50, 48, 50, 54>>
      [] s = "February 1, 2026" -> <<70, 101, 98, 114, 117, 97, 114, 121, 32, 49, 44, 32, 50, 48, 50, 54>>
      [] s = "20260115123456" -> <<50, 48, 50, 54, 48, 49, 49, 53, 49, 50, 51, 52, 53, 54>>
      [] s = "Alpha release" -> <<65, 108, 112, 104, 97, 32, 114, 101, 108, 101, 97, 115, 101>>
      [] s = "Beta update" -> <<66, 101, 116, 97, 32, 117, 112, 100, 97, 116, 101>>
      [] s = "Zeta retrospective" -> <<90, 101, 116, 97, 32, 114, 101, 116, 114, 111, 115, 112, 101, 99, 116, 105, 118, 101>>
      [] s = "1.0" -> <<49, 46, 48>>
      [] s = "1.0.0" -> <<49, 46, 48, 46, 48>>
      [] s = "1.0.0-alpha" -> <<49, 46, 48, 46, 48, 45, 97, 108, 112, 104, 97>>
      [] s = "1.0.0-beta" -> <<49, 46, 48, 46, 48, 45, 98, 101, 116, 97>>
      [] s = "1.9.0" -> <<49, 46, 57, 46, 48>>
      [] s = "1.10.0" -> <<49, 46, 49, 48, 46, 48>>
      [] s = "v1.9.0" -> <<118, 49, 46, 57, 46, 48>>
      [] s = "unreleased" -> <<117, 110, 114, 101, 108, 101, 97, 115, 101, 100>>
      [] s = "alpha" -> <<97, 108, 112, 104, 97>>
      [] s = "beta" -> <<98, 101, 116, 97>>
      [] s = "December 31, 2025" -> <<68, 101, 99, 101, 109, 98, 101, 114, 32, 51, 49, 44, 32, 50, 48, 50, 53>>
      [] s = "2025.12.17" -> <<50, 48, 50, 53, 46, 49, 50, 46, 49, 55>>
      [] s = "2026.01.20" -> <<50, 48, 50, 54, 46, 48, 49, 46, 50, 48>>

\* x < y on sequences of code units (the order of JavaScript's string <).
SeqLess(x, y) ==
    \E i \in 1..Len(y) :
        /\ \A j \in 1..(i - 1) : j <= Len(x) /\ x[j] = y[j]
        /\ (i > Len(x) \/ x[i] < y[i])

\* JavaScript's a > b on strings: byte-wise (code unit) comparison.
StrGT(a, b) == SeqLess(Utf16(b), Utf16(a))

\* Primary collation weight of a code unit under String.prototype.localeCompare
\* (root collation: space, then punctuation, then digits, then letters with
\* upper and lower case together).
CollationWeight(c) ==
    CASE c = 32 -> 1
      [] c = 45 -> 2
      [] c = 44 -> 3
      [] c = 46 -> 4
      [] c = 40 -> 5
      [] c = 41 -> 6
      [] c \in 48..57 -> 10 + (c - 48)
      [] c \in 65..90 -> 30 + (c - 65)
      [] c \in 97..122 -> 30 + (c - 97)

CollationKey(s) == [i \in 1..Len(Utf16(s)) |-> CollationWeight(Utf16(s)[i])]

\* a.localeCompare(b): negative, zero or positive.  Strings that differ only in
\* case have equal primary keys; lower case then sorts first.
LocaleCompare(a, b) ==
    IF a = b THEN 0
    ELSE IF SeqLess(CollationKey(a), CollationKey(b)) THEN -1
    ELSE IF SeqLess(CollationKey(b), CollationKey(a)) THEN 1
    ELSE IF StrGT(a, b) THEN -1 ELSE 1

(***************************************************************************)
(* The semver library, on the version strings of the model.                *)
(***************************************************************************)
NoSemver == [ok |-> FALSE, major |-> 0, minor |-> 0, patch |-> 0, pre |-> <<>>]

SemVer(ma, mi, pa, pre) ==
    [ok |-> TRUE, major |-> ma, minor |-> mi, patch |-> pa, pre |-> pre]

\* semver.clean(s): the strict parse of the trimmed string, else null.
SemverClean(s) ==
    CASE s = "1.1.0" -> SemVer(1, 1, 0, <<>>)
      [] s = "1.2.0" -> SemVer(1, 2, 0, <<>>)
      [] s = "1.2.0 (2025-06-01)" -> NoSemver
      [] s = "1.0" -> NoSemver
      [] s = "1.0.0" -> SemVer(1, 0, 0, <<>>)
      [] s = "1.0.0-alpha" -> SemVer(1, 0, 0, <<[num |-> FALSE, n |-> 0, s |-> "alpha"]>>)
      [] s = "1.0.0-beta" -> SemVer(1, 0, 0, <<[num |-> FALSE, n |-> 0, s |-> "beta"]>>)
      [] s = "1.9.0" -> SemVer(1, 9, 0, <<>>)
      [] s = "1.10.0" -> SemVer(1, 10, 0, <<>>)
      [] s = "v1.9.0" -> SemVer(1, 9, 0, <<>>)
      [] s = "unreleased" -> NoSemver

\* semver.coerce(s): the first digits(.digits(.digits)) run of the string, else null.
SemverCoerce(s) ==
    CASE s = "1.1.0" -> SemVer(1, 1, 0, <<>>)
      [] s = "1.2.0" -> SemVer(1, 2, 0, <<>>)
      [] s = "1.2.0 (2025-06-01)" -> SemVer(1, 2, 0, <<>>)
      [] s = "1.0" -> SemVer(1, 0, 0, <<>>)
      [] s = "1.0.0" -> SemVer(1, 0, 0, <<>>)
      [] s = "1.0.0-alpha" -> SemVer(1, 0, 0, <<>>)
      [] s = "1.0.0-beta" -> SemVer(1, 0, 0, <<>>)
      [] s = "1.9.0" -> SemVer(1, 9, 0, <<>>)
      [] s = "1.10.0" -> SemVer(1, 10, 0, <<>>)
      [] s = "v1.9.0" -> SemVer(1, 9, 0, <<>>)
      [] s = "unreleased" -> NoSemver

Sign(n) == IF n > 0 THEN 1 ELSE IF n < 0 THEN -1 ELSE 0

\* semver's compareIdentifiers on pre-release identifiers: numeric ones compare
\* as numbers and sort before alphanumeric ones, which compare as strings.
CompareIdentifiers(x, y) ==
    IF x.num /\ y.num THEN Sign(x.n - y.n)
    ELSE IF x.num THEN -1
    ELSE IF y.num THEN 1
    ELSE IF x.s = y.s THEN 0
    ELSE IF StrGT(x.s, y.s) THEN 1 ELSE -1

RECURSIVE ComparePre(_, _)
ComparePre(p, q) ==
    IF p = <<>> /\ q = <<>> THEN 0
    ELSE IF q = <<>> THEN 1
    ELSE IF p = <<>> THEN -1
    ELSE IF CompareIdentifiers(Head(p), Head(q)) # 0
         THEN CompareIdentifiers(Head(p), Head(q))
    ELSE ComparePre(Tail(p), Tail(q))

\* semver.compare(a, b) on parsed versions.
SemverCompare(a, b) ==
    IF a.major # b.major THEN Sign(a.major - b.major)
    ELSE IF a.minor # b.minor THEN Sign(a.minor - b.minor)
    ELSE IF a.patch # b.patch THEN Sign(a.patch - b.patch)
    ELSE IF a.pre = <<>> /\ b.pre = <<>> THEN 0
    ELSE IF a.pre = <<>> THEN 1
    ELSE IF b.pre = <<>> THEN -1
    ELSE ComparePre(a.pre, b.pre)

(***************************************************************************)
(* Comparators of changelog.ts.                                            *)
(***************************************************************************)
\* semver.clean(v) || semver.coerce(v)?.version
CleanOrCoerce(v) == IF SemverClean(v).ok THEN SemverClean(v) ELSE SemverCoerce(v)

\* compareVersions comparing the strings as text only.
compareVersions_Lexical(a, b) == LocaleCompare(a, b)

compareVersions(a, b) ==
    LET cleanA == CleanOrCoerce(a)
        cleanB == CleanOrCoerce(b)
    IN  IF ~cleanA.ok \/ ~cleanB.ok
        THEN LocaleCompare(a, b)
        ELSE SemverCompare(cleanA, cleanB)

Months ==
    [January |-> 0, February |-> 1, March |-> 2, April |-> 3, May |-> 4,
     June |-> 5, July |-> 6, August |-> 7, September |-> 8, October |-> 9,
     November |-> 10, December |-> 11]

NoMatch == [matched |-> FALSE, month |-> "", day |-> 0, year |-> 0]

\* dateStr.match(/^(\w+)\s+(\d{1,2}),\s+(\d{4})$/) on the strings of the model.
MatchMonthDayYear(dateStr) ==
    CASE dateStr = "December 31, 2025" ->
            [matched |-> TRUE, month |-> "December", day |-> 31, year |-> 2025]
      [] dateStr = "January 5, 2026" ->
            [matched |-> TRUE, month |-> "January", day |-> 5, year |-> 2026]
      [] dateStr = "January 30, 2026" ->
            [matched |-> TRUE, month |-> "January", day |-> 30, year |-> 2026]
      [] dateStr = "February 1, 2026" ->
            [matched |-> TRUE, month |-> "February", day |-> 1, year |-> 2026]
      [] OTHER -> NoMatch

IsLeap(y) == (y % 4 = 0 /\ y % 100 # 0) \/ y % 400 = 0

DaysBeforeMonth(m, y) ==
    LET cum == <<0, 31, 59, 90, 120, 151, 181, 212, 243, 273, 304, 334>>
    IN  cum[m + 1] + (IF m > 1 /\ IsLeap(y) THEN 1 ELSE 0)

\* new Date(year, month, day).getTime(), in days: the day number of the date.
DateTime(year, month, day) ==
    365 * year + ((year - 1) \div 4) - ((year - 1) \div 100)
      + ((year - 1) \div 400) + DaysBeforeMonth(month, year) + day

NoDate == [valid |-> FALSE, time |-> 0]

parseMonthDayYearDate(dateStr) ==
    LET match == MatchMonthDayYear(dateStr)
    IN  IF ~match.matched THEN NoDate
        ELSE IF match.month \notin DOMAIN Months THEN NoDate
        ELSE [valid |-> TRUE,
              time |-> DateTime(match.year, Months[match.month], match.day)]

\* isNewerIdentifier without the Month D, YYYY branch.
isNewerIdentifier_ByteWise(newId, oldId, parserType) ==
    IF parserType = "markdown"
    THEN compareVersions(newId, oldId) > 0
    ELSE StrGT(newId, oldId)

isNewerIdentifier(newId, oldId, parserType) ==
    IF parserType = "markdown"
    THEN compareVersions(newId, oldId) > 0
    ELSE LET newDate == parseMonthDayYearDate(newId)
             oldDate == parseMonthDayYearDate(oldId)
         IN  IF newDate.valid /\ oldDate.valid
             THEN newDate.time > oldDate.time
             ELSE StrGT(newId, oldId)


(***************************************************************************)
(* Configuration (config.ts).                                              *)
(***************************************************************************)
SOURCES ==
    [id \in {"claude-code", "claude-blog", "gemini", "chatgpt"} |->
        CASE id = "claude-code" ->
                [id |-> id, name |-> "Claude Code", parserType |-> "markdown",
                 releasePageUrl |-> "https://github.com/anthropics/claude-code/blob/main/CHANGELOG.md"]
          [] id = "claude-blog" ->
                [id |-> id, name |-> "Claude Blog", parserType |-> "wayback",
                 releasePageUrl |-> "https://claude.com/blog"]
          [] id = "gemini" ->
                [id |-> id, name |-> "Gemini", parserType |-> "wayback",
                 releasePageUrl |-> "https://gemini.google/release-notes/"]
          [] id = "chatgpt" ->
                [id |-> id, name |-> "ChatGPT", parserType |-> "wayback",
                 releasePageUrl |-> "https://help.openai.com/en/articles/6825453-chatgpt-release-notes"]]

\* Object.values(SOURCES): the sources in the order the table lists them.
SourceOrder == <<"claude-code", "claude-blog", "gemini", "chatgpt">>

\* A source descriptor of the earlier configuration format, whose parser type
\* checkSource does not know; callers of checkSource can still pass it.
LegacySource ==
    [id |-> "legacy", name |-> "Legacy", parserType |-> "hash-only",
     releasePageUrl |-> "https://example.com/changelog"]

SourceIds == DOMAIN SOURCES
AllSourceIds == SourceIds \cup {LegacySource.id}

SourceOf(id) == IF id = LegacySource.id THEN LegacySource ELSE SOURCES[id]

(***************************************************************************)
(* Fetched pages.  A page is what the extractor's regular expressions find *)
(* in it, in page order.                                                   *)
(***************************************************************************)
PageVersions == {"1.1.0", "1.2.0", "1.2.0 (2025-06-01)"}

\* A markdown changelog: the empty string, or text with its version headings.
MarkdownPages ==
    {[empty |-> TRUE, headings |-> <<>>]}
      \cup {[empty |-> FALSE, headings |-> h] : h \in SeqUpTo(PageVersions, MaxEntries)}

PageDates(id) ==
    IF id = "gemini" THEN {"2025.01.10", "2025.01.17"}
    ELSE {"January 30, 2026", "February 1, 2026"}

\* A dated release-notes page: its line-leading dated sections and, when it has
\* none, the first date that occurs anywhere in it (or none).
DatedPages(id) ==
    {[sections |-> d, inline |-> Null] : d \in SeqUpTo(PageDates(id), MaxEntries) \ {<<>>}}
      \cup {[sections |-> <<>>, inline |-> i] : i \in {Null} \cup PageDates(id)}

BlogPostPool ==
    {[title |-> "Zeta retrospective", date |-> "January 5, 2026",
      url |-> Undefined],
     [title |-> "Alpha release", date |-> "January 30, 2026",
      url |-> "https://claude.com/blog/alpha-release"],
     [title |-> "Beta update", date |-> "February 1, 2026",
      url |-> "https://claude.com/blog/beta-update"]}

\* A blog page: its headings that are followed by a date, in scan order.
BlogPages == [posts : SeqUpTo(BlogPostPool, MaxEntries)]

Pages(id) ==
    CASE id = "claude-code" -> MarkdownPages
      [] id = "claude-blog" -> BlogPages
      [] id \in {"gemini", "chatgpt"} -> DatedPages(id)

\* The timestamp of the newest snapshot the CDX API reports for a source.
SnapshotTimestamp(id) ==
    IF id = "gemini" THEN "20250115093000" ELSE "20260115123456"

\* !x for a string-or-null value.
Falsy(x) == x = Null \/ x = Undefined \/ x = ""

\* Array.prototype.join
RECURSIVE Join(_, _)
Join(seq, sep) ==
    IF seq = <<>> THEN ""
    ELSE IF Len(seq) = 1 THEN seq[1]
    ELSE seq[1] \o sep \o Join(Tail(seq), sep)

(***************************************************************************)
(* Extractors and novelty filters (changelog.ts).                          *)
(***************************************************************************)
extractAllVersions(content) ==
    [i \in 1..Len(content.headings) |->
        [version |-> content.headings[i],
         changes |-> "## " \o content.headings[i] \o "\n- notes of " \o content.headings[i]]]

getVersionsSince_FullHistory(allVersions, lastKnownVersion) ==
    IF Falsy(lastKnownVersion)
    THEN allVersions
    ELSE LET Newer(v) == compareVersions(v.version, lastKnownVersion) > 0
         IN  SelectSeq(allVersions, Newer)

\* getVersionsSince keeping the entries that compare equal as well.
getVersionsSince_Inclusive(allVersions, lastKnownVersion) ==
    IF Falsy(lastKnownVersion)
    THEN Slice0(allVersions, 1)
    ELSE LET NotOlder(v) == compareVersions(v.version, lastKnownVersion) >= 0
         IN  SelectSeq(allVersions, NotOlder)

getVersionsSince(allVersions, lastKnownVersion) ==
    IF Falsy(lastKnownVersion)
    THEN Slice0(allVersions, 1)
    ELSE LET Newer(v) == compareVersions(v.version, lastKnownVersion) > 0
         IN  SelectSeq(allVersions, Newer)

extractDateEntries(html) ==
    [i \in 1..Len(html.sections) |->
        [title |-> "New feature", date |-> html.sections[i]]]

\* extractGeminiDate / extractMonthDayYearDate: the first date anywhere in the page.
extractFirstDate(html) ==
    IF html.sections # <<>> THEN html.sections[1] ELSE html.inline

\* getNewDateEntries locating the stored date by position, as getNewBlogPosts
\* locates the stored title.
getNewDateEntries_ByPosition(entries, storedDate, parserType) ==
    IF Len(entries) = 0 THEN <<>>
    ELSE IF Falsy(storedDate) THEN Slice0(entries, 1)
    ELSE IF \A i \in 1..Len(entries) : entries[i].date # storedDate
    THEN Slice0(entries, 1)
    ELSE LET k == CHOOSE i \in 1..Len(entries) :
                     /\ entries[i].date = storedDate
                     /\ \A j \in 1..(i - 1) : entries[j].date # storedDate
         IN  SubSeq(entries, 1, k - 1)

getNewDateEntries(entries, storedDate, parserType) ==
    IF Len(entries) = 0 THEN <<>>
    ELSE IF Falsy(storedDate) THEN Slice0(entries, 1)
    ELSE LET Newer(e) == isNewerIdentifier(e.date, storedDate, parserType)
         IN  SelectSeq(entries, Newer)

\* extractBlogPosts keeping the first occurrence of each title.
extractBlogPosts_KeepFirst(html) ==
    LET posts == html.posts
        Kept(i) == \A j \in 1..(i - 1) : posts[j].title # posts[i].title
        RECURSIVE From(_)
        From(i) == IF i > Len(posts) THEN <<>>
                   ELSE IF Kept(i) THEN <<posts[i]>> \o From(i + 1)
                   ELSE From(i + 1)
    IN  From(1)

\* The deduplication of extractBlogPosts: the last occurrence of each title is
\* kept, in scan order.
extractBlogPosts(html) ==
    LET posts == html.posts
        Kept(i) == \A j \in (i + 1)..Len(posts) : posts[j].title # posts[i].title
        RECURSIVE From(_)
        From(i) == IF i > Len(posts) THEN <<>>
                   ELSE IF Kept(i) THEN <<posts[i]>> \o From(i + 1)
                   ELSE From(i + 1)
    IN  From(1)

\* posts.findIndex((p) => p.title === storedTitle), 1-based; 0 when absent.
FindIndex(posts, storedTitle) ==
    IF \E i \in 1..Len(posts) : posts[i].title = storedTitle
    THEN CHOOSE i \in 1..Len(posts) :
            /\ posts[i].title = storedTitle
            /\ \A j \in 1..(i - 1) : posts[j].title # storedTitle
    ELSE 0

\* getNewBlogPosts without the date filter on the candidates.
getNewBlogPosts_NoDateGuard(posts, storedTitle) ==
    IF Len(posts) = 0 THEN <<>>
    ELSE IF Falsy(storedTitle) THEN Slice0(posts, 1)
    ELSE LET storedIndex == FindIndex(posts, storedTitle)
         IN  IF storedIndex = 0 THEN Slice0(posts, 1)
             ELSE IF storedIndex = 1 THEN <<>>
             ELSE SubSeq(posts, 1, storedIndex - 1)

\* getNewBlogPosts returning the whole list when the stored title is missing.
getNewBlogPosts_AllWhenMissing(posts, storedTitle) ==
    IF Len(posts) = 0 THEN <<>>
    ELSE IF Falsy(storedTitle) THEN Slice0(posts, 1)
    ELSE LET storedIndex == FindIndex(posts, storedTitle)
         IN  IF storedIndex = 0 THEN posts
             ELSE IF storedIndex = 1 THEN <<>>
             ELSE LET storedDate == parseMonthDayYearDate(posts[storedIndex].date)
                      candidates == SubSeq(posts, 1, storedIndex - 1)
                      Later(p) ==
                          /\ parseMonthDayYearDate(p.date).valid
                          /\ parseMonthDayYearDate(p.date).time > storedDate.time
                  IN  IF ~storedDate.valid THEN candidates
                      ELSE SelectSeq(candidates, Later)

getNewBlogPosts(posts, storedTitle) ==
    IF Len(posts) = 0 THEN <<>>
    ELSE IF Falsy(storedTitle) THEN Slice0(posts, 1)
    ELSE LET storedIndex == FindIndex(posts, storedTitle)
         IN  IF storedIndex = 0 THEN Slice0(posts, 1)
             ELSE IF storedIndex = 1 THEN <<>>
             ELSE LET storedDate == parseMonthDayYearDate(posts[storedIndex].date)
                      candidates == SubSeq(posts, 1, storedIndex - 1)
                      Later(p) ==
                          /\ parseMonthDayYearDate(p.date).valid
                          /\ parseMonthDayYearDate(p.date).time > storedDate.time
                  IN  IF ~storedDate.valid THEN candidates
                      ELSE SelectSeq(candidates, Later)


(***************************************************************************)
(* Parsers (changelog.ts): what each does once its content has arrived.    *)
(***************************************************************************)
NoContent == [version |-> Undefined, formattedChanges |-> Undefined]

ParserFailure(error) ==
    [success |-> FALSE, version |-> Undefined, content |-> NoContent,
     error |-> error, skipRegressionCheck |-> FALSE]

ParserSuccess(version, displayVersion, formattedChanges, skip) ==
    [success |-> TRUE, version |-> version,
     content |-> [version |-> displayVersion, formattedChanges |-> formattedChanges],
     error |-> Undefined, skipRegressionCheck |-> skip]

\* fetchContent's value: null for a non-success status, else the body text.
NullContent == [null |-> TRUE, text |-> [empty |-> TRUE, headings |-> <<>>]]
Content(page) == [null |-> FALSE, text |-> page]

\* parseMarkdown taking a changelog without version headings as one with
\* nothing new.
parseMarkdown_EmptyIsCurrent(source, storedVersion, content) ==
    IF content.null \/ content.text.empty
    THEN ParserFailure("Failed to fetch Claude Code changelog")
    ELSE LET allVersions == extractAllVersions(content.text)
             missedVersions == getVersionsSince(allVersions, storedVersion)
             reversedMissed == Reverse(missedVersions)
             combinedChanges ==
                 Join([i \in 1..Len(reversedMissed) |-> reversedMissed[i].changes],
                      "\n\n---\n\n")
             versionDisplay ==
                 IF Len(missedVersions) = 1 THEN missedVersions[1].version
                 ELSE reversedMissed[1].version \o " -> " \o missedVersions[1].version
         IN  IF Len(allVersions) = 0
             THEN ParserSuccess(storedVersion, storedVersion, "", FALSE)
             ELSE IF Len(missedVersions) = 0
             THEN ParserSuccess(allVersions[1].version, allVersions[1].version,
                                allVersions[1].changes, FALSE)
             ELSE ParserSuccess(missedVersions[1].version, versionDisplay,
                                combinedChanges, FALSE)

\* parseMarkdown after `await fetchContent(source.url)`.
parseMarkdown(source, storedVersion, content) ==
    IF content.null \/ content.text.empty
    THEN ParserFailure("Failed to fetch Claude Code changelog")
    ELSE LET allVersions == extractAllVersions(content.text)
             missedVersions == getVersionsSince(allVersions, storedVersion)
             reversedMissed == Reverse(missedVersions)
             combinedChanges ==
                 Join([i \in 1..Len(reversedMissed) |-> reversedMissed[i].changes],
                      "\n\n---\n\n")
             versionDisplay ==
                 IF Len(missedVersions) = 1 THEN missedVersions[1].version
                 ELSE reversedMissed[1].version \o " -> " \o missedVersions[1].version
         IN  IF Len(allVersions) = 0
             THEN ParserFailure("No versions found in changelog")
             ELSE IF Len(missedVersions) = 0
             THEN ParserSuccess(allVersions[1].version, allVersions[1].version,
                                allVersions[1].changes, FALSE)
             ELSE ParserSuccess(missedVersions[1].version, versionDisplay,
                                combinedChanges, FALSE)

parseBlogContent(source, html, storedTitle) ==
    LET posts == extractBlogPosts(html)
        newPosts == getNewBlogPosts(posts, storedTitle)
        newest == newPosts[1]
        reversedNew == Reverse(newPosts)
        Line(p) == p.title \o " (" \o p.date \o "): "
                     \o (IF Falsy(p.url) THEN source.releasePageUrl ELSE p.url)
        formattedChanges ==
            Join([i \in 1..Len(reversedNew) |-> Line(reversedNew[i])], "\n\n")
    IN  IF Len(posts) = 0 THEN ParserFailure("No blog posts found")
        ELSE IF Len(newPosts) = 0
        THEN ParserSuccess(posts[1].title, posts[1].title \o ":" \o posts[1].date,
                           "", FALSE)
        ELSE ParserSuccess(newest.title, newest.title \o ":" \o newest.date,
                           formattedChanges, TRUE)

\* parseWayback without the timestamp fallback: a page with no date at all is
\* a failure.
parseWayback_NoFallback(source, storedIdentifier, snapshot, html) ==
    IF source.id = "claude-blog"
    THEN parseBlogContent(source, html, storedIdentifier)
    ELSE LET allEntries == extractDateEntries(html)
             date == extractFirstDate(html)
             newEntries == getNewDateEntries(allEntries, storedIdentifier,
                                             source.parserType)
             newest == newEntries[1]
             reversedNew == Reverse(newEntries)
             formattedChanges ==
                 Join([i \in 1..Len(reversedNew) |->
                          reversedNew[i].title \o " (" \o reversedNew[i].date \o ")"],
                      "\n\n") \o "\n\n" \o source.releasePageUrl
         IN  IF Len(allEntries) = 0
             THEN IF Falsy(date)
                  THEN ParserFailure("Could not extract date")
                  ELSE ParserSuccess(date, date \o ":" \o date,
                           source.name \o " (" \o date \o "): "
                             \o source.releasePageUrl, FALSE)
             ELSE IF Len(newEntries) = 0
             THEN ParserSuccess(allEntries[1].date,
                                allEntries[1].title \o ":" \o allEntries[1].date,
                                "", FALSE)
             ELSE ParserSuccess(newest.date, newest.title \o ":" \o newest.date,
                                formattedChanges, TRUE)

\* parseWayback after `await contentResponse.text()`: snapshot is the CDX row,
\* html the archived page.
parseWayback(source, storedIdentifier, snapshot, html) ==
    IF source.id = "claude-blog"
    THEN parseBlogContent(source, html, storedIdentifier)
    ELSE LET allEntries == extractDateEntries(html)
             date == extractFirstDate(html)
             newEntries == getNewDateEntries(allEntries, storedIdentifier,
                                             source.parserType)
             newest == newEntries[1]
             reversedNew == Reverse(newEntries)
             formattedChanges ==
                 Join([i \in 1..Len(reversedNew) |->
                          reversedNew[i].title \o " (" \o reversedNew[i].date \o ")"],
                      "\n\n") \o "\n\n" \o source.releasePageUrl
         IN  IF Len(allEntries) = 0
             THEN IF Falsy(date)
                  THEN ParserSuccess(snapshot.timestamp, "Update detected",
                           source.name \o " release notes updated.\n\n"
                             \o source.releasePageUrl, FALSE)
                  ELSE ParserSuccess(date, date \o ":" \o date,
                           source.name \o " (" \o date \o "): "
                             \o source.releasePageUrl, FALSE)
             ELSE IF Len(newEntries) = 0
             THEN ParserSuccess(allEntries[1].date,
                                allEntries[1].title \o ":" \o allEntries[1].date,
                                "", FALSE)
             ELSE ParserSuccess(newest.date, newest.title \o ":" \o newest.date,
                                formattedChanges, TRUE)

(***************************************************************************)
(* checkSource (changelog.ts): the part after the parser has returned.     *)
(***************************************************************************)
CheckResult(source, hasChanged, version, formattedChanges, error, isTransient) ==
    [source |-> source.id, hasChanged |-> hasChanged, version |-> version,
     formattedChanges |-> formattedChanges, error |-> error,
     isTransient |-> isTransient]

\* { source, hasChanged: false }
Unchanged(source) ==
    CheckResult(source, FALSE, Undefined, Undefined, Undefined, Undefined)

\* The catch block: { source, hasChanged: false, error: errorMsg }
Caught(source, errorMsg) ==
    CheckResult(source, FALSE, Undefined, Undefined, errorMsg, Undefined)

\* { source, hasChanged: false, error: result.error, isTransient }
FailureResult_NoFlag(source, result, isTransient) ==
    CheckResult(source, FALSE, Undefined, Undefined, result.error, Undefined)

FailureResult(source, result, isTransient) ==
    CheckResult(source, FALSE, Undefined, Undefined, result.error,
                IF isTransient THEN "true" ELSE "false")

IsRegression_Off(source, storedVersion, result) == FALSE

IsRegression_Swapped(source, storedVersion, result) ==
    /\ ~result.skipRegressionCheck
    /\ ~Falsy(storedVersion)
    /\ ~Falsy(result.version)
    /\ ~isNewerIdentifier(storedVersion, result.version, source.parserType)

\* The regression guard's condition for treating the result as unchanged.
IsRegression(source, storedVersion, result) ==
    /\ ~result.skipRegressionCheck
    /\ ~Falsy(storedVersion)
    /\ ~Falsy(result.version)
    /\ ~isNewerIdentifier(result.version, storedVersion, source.parserType)

\* The save made whatever the options say.
ShouldSave_Always(options) == TRUE

\* if (!options?.skipSave)
ShouldSave(options) == ~options.skipSave

Changed(source, result) ==
    CheckResult(source, TRUE, result.content.version,
                result.content.formattedChanges, Undefined, Undefined)

\* Compare with the save moved up, ahead of the comparison with the stored value.
Compare_SaveBeforeCompare(source, storedVersion, result, isTransient, options) ==
    IF ~result.success
    THEN [ret |-> FailureResult(source, result, isTransient),
          write |-> FALSE, identifier |-> Undefined]
    ELSE IF storedVersion = result.version \/ IsRegression(source, storedVersion, result)
    THEN [ret |-> Unchanged(source), write |-> ShouldSave(options),
          identifier |-> result.version]
    ELSE [ret |-> Changed(source, result), write |-> ShouldSave(options),
          identifier |-> result.version]

\* Compare with the save moved up, ahead of the test of result.success.
Compare_SaveBeforeSuccessTest(source, storedVersion, result, isTransient, options) ==
    IF ~result.success
    THEN [ret |-> FailureResult(source, result, isTransient),
          write |-> ShouldSave(options), identifier |-> result.version]
    ELSE IF storedVersion = result.version \/ IsRegression(source, storedVersion, result)
    THEN [ret |-> Unchanged(source), write |-> FALSE, identifier |-> Undefined]
    ELSE [ret |-> Changed(source, result), write |-> ShouldSave(options),
          identifier |-> result.version]

\* From `if (!result.success)` to the return: the CheckResult, and whether and
\* what checkSource writes to the store before returning it.
Compare(source, storedVersion, result, isTransient, options) ==
    IF ~result.success
    THEN [ret |-> FailureResult(source, result, isTransient),
          write |-> FALSE, identifier |-> Undefined]
    ELSE IF storedVersion = result.version
    THEN [ret |-> Unchanged(source), write |-> FALSE, identifier |-> Undefined]
    ELSE IF IsRegression(source, storedVersion, result)
    THEN [ret |-> Unchanged(source), write |-> FALSE, identifier |-> Undefined]
    ELSE [ret |-> Changed(source, result), write |-> ShouldSave(options),
          identifier |-> result.version]

(***************************************************************************)
(* State.                                                                  *)
(***************************************************************************)
VARIABLES
    store,              \* per source: the identifier in its state file, or Null
    pc,                 \* per source: where its checkSource invocation stands
    storedVersion,      \* checkSource's local: the watermark read at the start
    options,            \* checkSource's argument
    attempt,            \* fetchWithRetry's loop counter
    snapshot,           \* parseWayback's local: the CDX row
    page,               \* the content the check fetched
    result,             \* checkSource's local: the ParserResult
    ret,                \* the CheckResult the invocation resolved to
    reads,              \* store reads of the invocation
    writes,             \* store writes of the invocation
    call,               \* a direct call of one exported pure function
    mainPc,             \* where the CLI process (main) stands
    args,               \* main's command line: dryRun, testMode
    queue,              \* main: the sources still to check
    cur,                \* main: the source of the current loop iteration
    prior,              \* the watermark cur's check started from
    slack,              \* the notification of the current iteration
    slackPosts,         \* the POSTs sendSlackNotification made in this iteration
    errorsEncountered,  \* main's error counter
    exitCode,           \* the exit status of the last CLI process
    runs                \* CLI runs and direct checkSource calls so far

checkVars == <<pc, storedVersion, options, attempt, snapshot, page, result, ret,
               reads, writes>>
mainVars == <<mainPc, args, queue, cur, prior, slack, slackPosts, errorsEncountered,
              exitCode>>
vars == <<store, checkVars, mainVars, runs, call>>

NoOptions == [skipSave |-> FALSE]
NoSnapshot == [timestamp |-> Undefined]
NoPage == [none |-> TRUE]
NoResult == [none |-> TRUE]
NoRet == [none |-> TRUE]
NoArgs == [dryRun |-> FALSE, testMode |-> FALSE]
NoCall == [fn |-> "none", args |-> <<>>, done |-> FALSE, out |-> <<>>]

\* No checkSource invocation and no CLI process is running.
NothingRunning ==
    /\ pc = [s \in AllSourceIds |-> "idle"]
    /\ storedVersion = [s \in AllSourceIds |-> Null]
    /\ options = [s \in AllSourceIds |-> NoOptions]
    /\ attempt = [s \in AllSourceIds |-> 0]
    /\ snapshot = [s \in AllSourceIds |-> NoSnapshot]
    /\ page = [s \in AllSourceIds |-> NoPage]
    /\ result = [s \in AllSourceIds |-> NoResult]
    /\ ret = [s \in AllSourceIds |-> NoRet]
    /\ reads = [s \in AllSourceIds |-> 0]
    /\ writes = [s \in AllSourceIds |-> 0]
    /\ mainPc = "off"
    /\ args = NoArgs
    /\ queue = <<>>
    /\ cur = Null
    /\ prior = Null
    /\ slack = "none"
    /\ slackPosts = 0
    /\ errorsEncountered = 0
    /\ exitCode = Null
    /\ runs = 0

\* No checkSource invocation and no CLI process yet; every state file absent.
NothingRun ==
    /\ store = [s \in AllSourceIds |-> Null]
    /\ NothingRunning

Init ==
    /\ NothingRun
    /\ call = NoCall

(***************************************************************************)
(* The watermark store (hash-store.ts).                                    *)
(***************************************************************************)
\* readStoredData(source): the stored data, or null when there is no file.
readStoredData(s) ==
    IF store[s] = Null THEN [null |-> TRUE, identifier |-> Undefined]
    ELSE [null |-> FALSE, identifier |-> store[s]]

\* writeStoredData(source, { identifier }): the store afterwards.
writeStoredData(s, identifier) == [store EXCEPT ![s] = identifier]

(***************************************************************************)
(* checkSource (changelog.ts), one action per run of synchronous code      *)
(* between two awaits.                                                     *)
(***************************************************************************)
\* The number of attempts of fetchWithRetry (its default `retries`).
Retries == 2

\* Resolve with the result kept in one variable shared by every invocation.
Resolve_Shared(s, r) ==
    /\ pc' = [pc EXCEPT ![s] = "done"]
    /\ ret' = [t \in AllSourceIds |-> r]

\* The invocation of s resolves to r without having parsed anything more.
Resolve(s, r) ==
    /\ pc' = [pc EXCEPT ![s] = "done"]
    /\ ret' = [ret EXCEPT ![s] = r]

\* The exception leaves checkSource: the promise rejects.
Catch_Rethrow(s, errorMsg) ==
    /\ pc' = [pc EXCEPT ![s] = "rejected"]
    /\ ret' = ret

\* The try/catch of checkSource: an exception thrown anywhere in its body is
\* caught, and the invocation resolves to the catch block's result.
Catch(s, errorMsg) == Resolve(s, Caught(SourceOf(s), errorMsg))

\* From the parser's return to checkSource's return: compare, save, resolve.
\* The store write may throw, which the catch block reports.
Finish(s, stored, parsed, isTransient) ==
    LET c == Compare(SourceOf(s), stored, parsed, isTransient, options[s])
    IN  /\ result' = [result EXCEPT ![s] = parsed]
        /\ IF c.write
           THEN \E writeOk \in BOOLEAN :
                  /\ writes' = [writes EXCEPT ![s] = @ + 1]
                  /\ IF writeOk
                     THEN /\ store' = writeStoredData(s, c.identifier)
                          /\ Resolve(s, c.ret)
                     ELSE /\ store' = store
                          /\ Catch(s, "EACCES: permission denied")
           ELSE /\ UNCHANGED <<store, writes>>
                /\ Resolve(s, c.ret)

\* checkSource(source, options) up to its first await: read the store, then
\* start the parser for the source's type.
Begin(s, opts) ==
    /\ pc[s] = "idle"
    /\ options' = [options EXCEPT ![s] = opts]
    /\ reads' = [reads EXCEPT ![s] = 1]
    /\ writes' = [writes EXCEPT ![s] = 0]
    /\ UNCHANGED <<store, snapshot, page, result>>
    /\ \E readOk \in BOOLEAN :
         IF ~readOk
         THEN /\ Catch(s, "Storage failure")
              /\ UNCHANGED <<storedVersion, attempt>>
         ELSE LET storedData == readStoredData(s)
                  stored == IF storedData.null \/ Falsy(storedData.identifier)
                            THEN Null ELSE storedData.identifier
              IN  /\ storedVersion' = [storedVersion EXCEPT ![s] = stored]
                  /\ CASE SourceOf(s).parserType = "markdown" ->
                            /\ pc' = [pc EXCEPT ![s] = "fetch"]
                            /\ UNCHANGED <<attempt, ret>>
                       [] SourceOf(s).parserType = "wayback" ->
                            /\ pc' = [pc EXCEPT ![s] = "cdx"]
                            /\ attempt' = [attempt EXCEPT ![s] = 1]
                            /\ UNCHANGED ret
                       [] OTHER ->
                            /\ Resolve(s, CheckResult(SourceOf(s), FALSE, Undefined,
                                   Undefined, "Unknown parser type", Undefined))
                            /\ UNCHANGED attempt

\* parseMarkdown: fetchContent's fetch settles, then everything to the return.
MarkdownFetched(s) ==
    /\ pc[s] = "fetch"
    /\ UNCHANGED <<storedVersion, options, attempt, snapshot, reads>>
    /\ UNCHANGED <<mainVars, runs>>
    /\ \/ \* fetch rejects: the exception reaches checkSource's catch block
          /\ Catch(s, "fetch failed")
          /\ UNCHANGED <<store, page, result, writes>>
       \/ \* response.text() rejects
          /\ Catch(s, "terminated")
          /\ UNCHANGED <<store, page, result, writes>>
       \/ \* a non-success status: fetchContent returns null
          /\ page' = page
          /\ Finish(s, storedVersion[s],
                    parseMarkdown(SourceOf(s), storedVersion[s], NullContent), FALSE)
       \/ \E p \in Pages(s) :
            /\ page' = [page EXCEPT ![s] = p]
            /\ Finish(s, storedVersion[s],
                      parseMarkdown(SourceOf(s), storedVersion[s], Content(p)), FALSE)
    /\ UNCHANGED call

\* fetchWithRetry: an attempt failed (a non-success status or a network error).
\* TRUE when another attempt follows.
RetryLeft(s) == attempt[s] < Retries

\* parseWayback: one attempt of the CDX lookup settles.
CdxSettled(s) ==
    /\ pc[s] = "cdx"
    /\ UNCHANGED <<storedVersion, options, page, reads>>
    /\ UNCHANGED <<mainVars, runs>>
    /\ \/ \* response.ok and a data row: go on to fetch the snapshot
          /\ snapshot' = [snapshot EXCEPT ![s] = [timestamp |-> SnapshotTimestamp(s)]]
          /\ pc' = [pc EXCEPT ![s] = "snapshot"]
          /\ attempt' = [attempt EXCEPT ![s] = 1]
          /\ UNCHANGED <<store, result, ret, writes>>
       \/ \* response.ok, but the body is no JSON or holds no data row
          /\ UNCHANGED <<snapshot, attempt>>
          /\ Finish(s, storedVersion[s],
                    ParserFailure("No Wayback snapshot available via CDX"), TRUE)
       \/ \* the attempt failed
          /\ UNCHANGED snapshot
          /\ IF RetryLeft(s)
             THEN /\ attempt' = [attempt EXCEPT ![s] = @ + 1]
                  /\ UNCHANGED <<store, pc, result, ret, writes>>
             ELSE /\ UNCHANGED attempt
                  /\ Finish(s, storedVersion[s],
                            ParserFailure("No Wayback snapshot available via CDX"), TRUE)
    /\ UNCHANGED call

\* parseWayback: one attempt of the snapshot fetch settles.
SnapshotSettled(s) ==
    /\ pc[s] = "snapshot"
    /\ UNCHANGED <<storedVersion, options, snapshot, reads>>
    /\ UNCHANGED <<mainVars, runs>>
    /\ \/ \E p \in Pages(s) :
            /\ page' = [page EXCEPT ![s] = p]
            /\ UNCHANGED attempt
            /\ Finish(s, storedVersion[s],
                      parseWayback(SourceOf(s), storedVersion[s], snapshot[s], p), TRUE)
       \/ \* contentResponse.text() rejects
          /\ Catch(s, "terminated")
          /\ UNCHANGED <<store, attempt, page, result, writes>>
       \/ \* the attempt failed
          /\ page' = page
          /\ IF RetryLeft(s)
             THEN /\ attempt' = [attempt EXCEPT ![s] = @ + 1]
                  /\ UNCHANGED <<store, pc, result, ret, writes>>
             ELSE /\ UNCHANGED attempt
                  /\ Finish(s, storedVersion[s],
                            ParserFailure("Failed to fetch Wayback content"), TRUE)
    /\ UNCHANGED call

\* The invocation's locals are gone once its caller has the result.
Forget(s) ==
    /\ pc' = [pc EXCEPT ![s] = "idle"]
    /\ storedVersion' = [storedVersion EXCEPT ![s] = Null]
    /\ options' = [options EXCEPT ![s] = NoOptions]
    /\ attempt' = [attempt EXCEPT ![s] = 0]
    /\ snapshot' = [snapshot EXCEPT ![s] = NoSnapshot]
    /\ page' = [page EXCEPT ![s] = NoPage]
    /\ result' = [result EXCEPT ![s] = NoResult]
    /\ ret' = [ret EXCEPT ![s] = NoRet]
    /\ reads' = [reads EXCEPT ![s] = 0]
    /\ writes' = [writes EXCEPT ![s] = 0]


(***************************************************************************)
(* Direct callers of checkSource.                                          *)
(***************************************************************************)
Idle == mainPc = "off" /\ \A t \in AllSourceIds : pc[t] = "idle"

\* A caller other than main invokes checkSource(source, { skipSave }).
ApiCheck(s) ==
    /\ Idle
    /\ runs < MaxRuns
    /\ runs' = runs + 1
    /\ \E skipSave \in BOOLEAN : Begin(s, [skipSave |-> skipSave])
    /\ UNCHANGED mainVars
    /\ UNCHANGED call

\* The caller's await resumes with the CheckResult.
ApiReturn(s) ==
    /\ mainPc = "off"
    /\ pc[s] = "done"
    /\ Forget(s)
    /\ UNCHANGED <<store, mainVars, runs>>
    /\ UNCHANGED call

(***************************************************************************)
(* The CLI (index.ts): main.                                               *)
(***************************************************************************)
\* main up to its loop: parse the command line, choose the sources to check.
\* targets: the command-line targets this start draws from.
StartMainWith(targets) ==
    /\ Idle
    /\ runs < MaxRuns
    /\ runs' = runs + 1
    /\ \E dryRun \in BOOLEAN, testMode \in BOOLEAN :
         args' = [dryRun |-> dryRun, testMode |-> testMode]
    /\ \E target \in targets :
         queue' = IF target = "all" THEN SourceOrder ELSE <<target>>
    /\ mainPc' = "loop"
    /\ cur' = Null
    /\ prior' = Null
    /\ slack' = "none"
    /\ slackPosts' = 0
    /\ errorsEncountered' = 0
    /\ exitCode' = Null
    /\ UNCHANGED <<store, checkVars>>
    /\ UNCHANGED call

\* A run on one source, as in `npx tsx src/index.ts gemini --dry-run`.
StartMain == StartMainWith(SourceIds)

\* The head of a loop iteration: `await checkSource(source, { skipSave: testMode })`.
MainIterate ==
    /\ mainPc = "loop"
    /\ queue # <<>>
    /\ cur' = Head(queue)
    /\ queue' = Tail(queue)
    /\ prior' = Null
    /\ slack' = "none"
    /\ slackPosts' = 0
    /\ Begin(Head(queue), [skipSave |-> args.testMode])
    /\ mainPc' = "check"
    /\ UNCHANGED <<args, errorsEncountered, exitCode, runs>>
    /\ UNCHANGED call

\* The loop body after checkSource resolved, up to `continue` or to the await
\* of sendSlackNotification.
MainResult ==
    /\ mainPc = "check"
    /\ pc[cur] = "done"
    /\ LET r == ret[cur]
       IN  IF ~Falsy(r.error)
           THEN /\ errorsEncountered' =
                     IF r.isTransient = "true" THEN errorsEncountered
                     ELSE errorsEncountered + 1
                /\ mainPc' = "loop"
                /\ UNCHANGED <<prior, slack>>
           ELSE IF ~r.hasChanged
           THEN /\ mainPc' = "loop"
                /\ UNCHANGED <<prior, slack, errorsEncountered>>
           ELSE /\ prior' = storedVersion[cur]
                /\ UNCHANGED errorsEncountered
                /\ IF args.dryRun
                   THEN mainPc' = "loop" /\ slack' = "skipped"
                   ELSE mainPc' = "notify" /\ slack' = "pending"
    /\ Forget(cur)
    /\ UNCHANGED <<store, args, queue, cur, slackPosts, exitCode, runs>>
    /\ UNCHANGED call

\* How a call of sendSlackNotification goes: no webhook URL configured, or the
\* POST answered with a success status, answered with another status (whose
\* body is then read, which may fail too), or was rejected.
SlackOutcomes == {"no-webhook", "ok", "status", "status-no-body", "rejected"}

\* sendSlackNotification posting again after a failed POST.
sendSlackNotification_Again(outcome) ==
    CASE outcome = "no-webhook" ->
            [success |-> FALSE, error |-> "No webhook URL configured", posts |-> 0]
      [] outcome = "ok" -> [success |-> TRUE, error |-> Undefined, posts |-> 1]
      [] outcome = "status" ->
            [success |-> FALSE, error |-> "400: invalid_payload", posts |-> 2]
      [] outcome = "status-no-body" ->
            [success |-> FALSE, error |-> "terminated", posts |-> 2]
      [] outcome = "rejected" ->
            [success |-> FALSE, error |-> "Network error", posts |-> 2]

\* sendSlackNotification(webhookUrl, payload) (slack.ts): the SlackResult it
\* resolves to, and the number of POSTs it made.
sendSlackNotification(outcome) ==
    CASE outcome = "no-webhook" ->
            [success |-> FALSE, error |-> "No webhook URL configured", posts |-> 0]
      [] outcome = "ok" -> [success |-> TRUE, error |-> Undefined, posts |-> 1]
      [] outcome = "status" ->
            [success |-> FALSE, error |-> "400: invalid_payload", posts |-> 1]
      [] outcome = "status-no-body" ->
            [success |-> FALSE, error |-> "terminated", posts |-> 1]
      [] outcome = "rejected" ->
            [success |-> FALSE, error |-> "Network error", posts |-> 1]

\* sendSlackNotification (slack.ts) settles: no webhook URL configured, the POST
\* answered with a success status, with another status, or fetch rejected.  The
\* loop body's last lines count a failure.
SlackSettled ==
    /\ mainPc = "notify"
    /\ \E outcome \in SlackOutcomes :
         LET r == sendSlackNotification(outcome)
         IN  /\ slack' = IF r.success THEN "sent" ELSE "failed"
             /\ slackPosts' = slackPosts + r.posts
             /\ errorsEncountered' =
                  IF r.success THEN errorsEncountered ELSE errorsEncountered + 1
    /\ mainPc' = "loop"
    /\ UNCHANGED <<store, checkVars, args, queue, cur, prior, exitCode, runs>>
    /\ UNCHANGED call

\* main ending with status 0 whatever it counted.
MainExit_ExitZero ==
    /\ mainPc = "loop"
    /\ queue = <<>>
    /\ exitCode' = "0"
    /\ mainPc' = "off"
    /\ args' = NoArgs
    /\ cur' = Null
    /\ prior' = Null
    /\ slack' = "none"
    /\ slackPosts' = 0
    /\ errorsEncountered' = 0
    /\ UNCHANGED <<store, checkVars, queue, runs>>
    /\ UNCHANGED call

\* After the loop: the summary, and exit status 1 when errors were counted.
MainExit ==
    /\ mainPc = "loop"
    /\ queue = <<>>
    /\ exitCode' = IF errorsEncountered > 0 THEN "1" ELSE "0"
    /\ mainPc' = "off"
    /\ args' = NoArgs
    /\ cur' = Null
    /\ prior' = Null
    /\ slack' = "none"
    /\ slackPosts' = 0
    /\ errorsEncountered' = 0
    /\ UNCHANGED <<store, checkVars, queue, runs>>
    /\ UNCHANGED call

\* The process is killed while it awaits checkSource or the notification; its
\* memory is gone, the store file stays as it is.
Crash ==
    /\ mainPc \in {"check", "notify"}
    /\ mainPc' = "off"
    /\ exitCode' = "killed"
    /\ args' = NoArgs
    /\ queue' = <<>>
    /\ errorsEncountered' = 0
    /\ cur' = Null
    /\ prior' = Null
    /\ slack' = "none"
    /\ slackPosts' = 0
    /\ Forget(cur)
    /\ UNCHANGED <<store, runs>>
    /\ UNCHANGED call

\* checkSource called directly, one invocation after another.
Next ==
    \/ \E s \in AllSourceIds : ApiCheck(s)
    \/ \E s \in AllSourceIds : ApiReturn(s)
    \/ \E s \in AllSourceIds : MarkdownFetched(s)
    \/ \E s \in AllSourceIds : CdxSettled(s)
    \/ \E s \in AllSourceIds : SnapshotSettled(s)

Spec == Init /\ [][Next]_vars

\* Runs of the CLI, one process after another on the same store.
NextMain ==
    \/ StartMain
    \/ MainIterate
    \/ \E s \in SourceIds : MarkdownFetched(s)
    \/ \E s \in SourceIds : CdxSettled(s)
    \/ \E s \in SourceIds : SnapshotSettled(s)
    \/ MainResult
    \/ SlackSettled
    \/ MainExit
    \/ Crash

SpecMain == Init /\ [][NextMain]_vars

\* A run on every source, as in `npx tsx src/index.ts` or `... all`.
StartAll == runs = 0 /\ StartMainWith({"all"})

\* The watermarks earlier runs have left: an entry of each source's page.
EarlierWatermarks ==
    [s \in AllSourceIds |->
        CASE s = "claude-code" -> "1.1.0"
          [] s = "claude-blog" -> "Alpha release"
          [] s = "gemini" -> "2025.01.10"
          [] s = "chatgpt" -> "January 30, 2026"
          [] OTHER -> Null]

\* The machine before the run: no state file yet, or those of earlier runs.
InitAll ==
    /\ store \in {[s \in AllSourceIds |-> Null], EarlierWatermarks}
    /\ NothingRunning
    /\ call = NoCall

\* One run of the CLI on all sources, left to finish.
NextAll ==
    \/ StartAll
    \/ MainIterate
    \/ \E s \in SourceIds : MarkdownFetched(s)
    \/ \E s \in SourceIds : CdxSettled(s)
    \/ \E s \in SourceIds : SnapshotSettled(s)
    \/ MainResult
    \/ SlackSettled
    \/ MainExit

SpecAll == InitAll /\ [][NextAll]_vars


(***************************************************************************)
(* The exported pure functions called directly, as their unit tests do.    *)
(***************************************************************************)
\* A call of fn with args that has not returned yet.
Call(fn, arguments) == [fn |-> fn, args |-> arguments, done |-> FALSE, out |-> <<>>]

\* The call returns out.
Return(out) ==
    /\ ~call.done
    /\ call' = [call EXCEPT !.done = TRUE, !.out = out]
    /\ UNCHANGED <<store, checkVars, mainVars, runs>>

\* Version strings handed to compareVersions: plain, shortened, pre-release,
\* v-prefixed, and one that is no version at all.
FnVersions ==
    {"1.0", "1.0.0", "1.0.0-alpha", "1.0.0-beta", "1.9.0", "1.10.0", "v1.9.0",
     "unreleased"}

\* Identifiers handed to isNewerIdentifier for a wayback source: Month D, YYYY
\* dates, YYYY.MM.DD dates and a snapshot timestamp.
FnIdentifiers ==
    {"December 31, 2025", "January 30, 2026", "February 1, 2026",
     "2025.01.10", "2025.01.17", "2025.12.17", "2026.01.20", "20250115093000"}

CompareVersionsCalls ==
    {Call("compareVersions", <<a, b, c>>) : a \in FnVersions, b \in FnVersions,
                                             c \in FnVersions}

IsNewerIdentifierCalls ==
    {Call("isNewerIdentifier", <<a, b>>) : a \in FnIdentifiers, b \in FnIdentifiers}

\* compareVersions on each pair of three strings a, b, c.
ReturnCompareVersions ==
    /\ call.fn = "compareVersions"
    /\ LET a == call.args[1]
           b == call.args[2]
           c == call.args[3]
       IN  Return([aa |-> compareVersions(a, a), ab |-> compareVersions(a, b),
                   ba |-> compareVersions(b, a), bc |-> compareVersions(b, c),
                   ac |-> compareVersions(a, c)])

\* isNewerIdentifier(a, b, "wayback") and isNewerIdentifier(a, a, "wayback").
ReturnIsNewerIdentifier ==
    /\ call.fn = "isNewerIdentifier"
    /\ LET a == call.args[1]
           b == call.args[2]
       IN  Return([ab |-> isNewerIdentifier(a, b, "wayback"),
                   aa |-> isNewerIdentifier(a, a, "wayback")])

\* Version lists handed to getVersionsSince, and the stored versions.
ListVersions == {"1.0.0", "1.9.0", "1.10.0"}

GetVersionsSinceCalls ==
    {Call("getVersionsSince",
          <<extractAllVersions([empty |-> FALSE, headings |-> h]), stored>>) :
        h \in SeqUpTo(ListVersions, MaxEntries), stored \in ListVersions \cup {"1.0"}}

\* Dated sections handed to getNewDateEntries, either all Month D, YYYY or all
\* YYYY.MM.DD, and the stored dates: those of the page, one that is on no
\* page, and the snapshot timestamp of the fallback.
StoredDates(id) ==
    PageDates(id) \cup {SnapshotTimestamp(id)}
      \cup (IF id = "gemini" THEN {"2025.12.17"} ELSE {"December 31, 2025"})

GetNewDateEntriesCalls ==
    UNION {{Call("getNewDateEntries",
                 <<extractDateEntries([sections |-> d, inline |-> Null]), stored>>) :
              d \in SeqUpTo(PageDates(id), MaxEntries), stored \in StoredDates(id)} :
           id \in {"gemini", "chatgpt"}}

\* Posts handed to getNewBlogPosts: those of the pages, a featured-section
\* repeat of one of them, and one whose date is not Month D, YYYY.
FeaturedPost ==
    [title |-> "Alpha release", date |-> "January 30, 2026", url |-> Undefined]

UndatedPost == [title |-> "Undated note", date |-> "Spring 2026", url |-> Undefined]

ScanPosts == BlogPostPool \cup {FeaturedPost}

FnPosts == ScanPosts \cup {UndatedPost}

StoredTitles == {p.title : p \in FnPosts} \cup {"Gone post"}

GetNewBlogPostsCalls ==
    {Call("getNewBlogPosts", <<posts, stored>>) :
        posts \in SeqUpTo(FnPosts, MaxEntries), stored \in StoredTitles}

ExtractBlogPostsCalls ==
    {Call("extractBlogPosts", <<[posts |-> scan]>>) :
        scan \in SeqUpTo(ScanPosts, MaxEntries)}

ReturnGetVersionsSince ==
    /\ call.fn = "getVersionsSince"
    /\ Return(getVersionsSince(call.args[1], call.args[2]))

ReturnGetNewDateEntries ==
    /\ call.fn = "getNewDateEntries"
    /\ Return(getNewDateEntries(call.args[1], call.args[2], "wayback"))

ReturnGetNewBlogPosts ==
    /\ call.fn = "getNewBlogPosts"
    /\ Return(getNewBlogPosts(call.args[1], call.args[2]))

ReturnExtractBlogPosts ==
    /\ call.fn = "extractBlogPosts"
    /\ Return(extractBlogPosts(call.args[1]))

(***************************************************************************)
(* The state file (hash-store.ts): its functions on the file's content.    *)
(***************************************************************************)
\* A StoredData object, or null.
StoredData(date, hash, identifier) ==
    [null |-> FALSE, date |-> date, hash |-> hash, identifier |-> identifier]

NullData ==
    [null |-> TRUE, date |-> Undefined, hash |-> Undefined, identifier |-> Undefined]

\* A state file: absent, or its text.  brace: the text starts with "{";
\* json: JSON.parse accepts it, and then data is the object it denotes.
NoFile == [exists |-> FALSE, brace |-> FALSE, json |-> FALSE, data |-> NullData, text |-> ""]

PlainText(text) ==
    [exists |-> TRUE, brace |-> FALSE, json |-> FALSE, data |-> NullData, text |-> text]

BrokenJson ==
    [exists |-> TRUE, brace |-> TRUE, json |-> FALSE, data |-> NullData,
     text |-> "{\"identifier\": "]

\* JSON.stringify(data); a property that is undefined is left out and reads
\* back as undefined.
JSONstringify(data) ==
    [exists |-> TRUE, brace |-> TRUE, json |-> TRUE, data |-> data, text |-> ""]

\* What a call of a hash-store function comes to: a value, or an exception
\* that leaves the function.
Returns(value) == [threw |-> FALSE, value |-> value]
Throws == [threw |-> TRUE, value |-> NullData]

\* path.join(DATA_DIR, source.hashFileName) throws a TypeError when the
\* descriptor has no hashFileName.
PathJoinThrows(hashFileName) == Falsy(hashFileName)

\* readStoredData(source) with the state file as it is.
readStoredDataFile(hashFileName, file) ==
    IF PathJoinThrows(hashFileName) THEN Throws
    ELSE IF ~file.exists THEN Returns(NullData)
    ELSE IF file.brace
    THEN IF file.json THEN Returns(file.data) ELSE Returns(NullData)
    ELSE Returns(StoredData(Undefined, file.text, Undefined))

\* writeStoredData(source, data): the state file afterwards.
writeStoredDataFile(hashFileName, data, file) ==
    IF PathJoinThrows(hashFileName) THEN [threw |-> TRUE, file |-> file]
    ELSE IF ~Falsy(data.date)
    THEN [threw |-> FALSE, file |-> JSONstringify(data)]
    ELSE [threw |-> FALSE,
          file |-> PlainText(IF Falsy(data.hash) THEN "" ELSE data.hash)]

\* The file names of the descriptors: hashFileName of config.ts; a descriptor
\* with stateFile has no hashFileName.
HashFileNames == {"changelog_claude_code.hash", Undefined}

StoredIdentifiers == {"1.2.3", "2025.01.17", "Alpha release"}

\* State files readStoredData meets.
StateFiles ==
    {NoFile, PlainText("not valid json"), PlainText("a1b2c3"), BrokenJson}
      \cup {JSONstringify(StoredData(Undefined, Undefined, s)) : s \in StoredIdentifiers}
      \cup {JSONstringify(StoredData("2025.01.17", "a1b2c3", Undefined))}

ReadStoredDataCalls ==
    {Call("readStoredData", <<n, f>>) : n \in HashFileNames, f \in StateFiles}

WriteStoredDataCalls ==
    {Call("writeStoredData", <<n, StoredData(Undefined, Undefined, s), f>>) :
        n \in HashFileNames, s \in StoredIdentifiers, f \in StateFiles}

ReturnReadStoredData ==
    /\ call.fn = "readStoredData"
    /\ Return(readStoredDataFile(call.args[1], call.args[2]))

\* writeStoredData(source, data) followed by readStoredData(source).
ReturnWriteStoredData ==
    /\ call.fn = "writeStoredData"
    /\ LET written == writeStoredDataFile(call.args[1], call.args[2], call.args[3])
       IN  Return([written |-> written,
                   read |-> readStoredDataFile(call.args[1], written.file)])

InitFn ==
    /\ NothingRun
    /\ \/ call \in CompareVersionsCalls
       \/ call \in IsNewerIdentifierCalls
       \/ call \in GetVersionsSinceCalls
       \/ call \in GetNewDateEntriesCalls
       \/ call \in GetNewBlogPostsCalls
       \/ call \in ExtractBlogPostsCalls
       \/ call \in ReadStoredDataCalls
       \/ call \in WriteStoredDataCalls

NextFn ==
    \/ ReturnCompareVersions
    \/ ReturnIsNewerIdentifier
    \/ ReturnGetVersionsSince
    \/ ReturnGetNewDateEntries
    \/ ReturnGetNewBlogPosts
    \/ ReturnExtractBlogPosts
    \/ ReturnReadStoredData
    \/ ReturnWriteStoredData

SpecFn == InitFn /\ [][NextFn]_vars



(***************************************************************************)
(* The network operations (changelog.ts): fetchContent and fetchWithRetry, *)
(* one action per await.                                                   *)
(***************************************************************************)
\* How one call of fetch() settles: a success status, another status, or a
\* rejection (a network error).
FetchOutcomes == {"ok", "403", "404", "429", "500", "503", "rejects"}

\* The operation has not settled yet.
FetchPending(fn, arguments) ==
    [Call(fn, arguments) EXCEPT
        !.out = [attempt |-> 1, pc |-> "fetch", log |-> <<>>, value |-> "<pending>"]]

\* The three operations that obtain content: parseMarkdown's fetchContent,
\* and fetchWithRetry for the CDX lookup and for the snapshot.
FetchCalls ==
    {FetchPending("fetchContent", <<"changelog">>),
     FetchPending("fetchWithRetry", <<"cdx">>),
     FetchPending("fetchWithRetry", <<"snapshot">>)}

\* The operation settles with value v (pc: "returned" or "threw").
Settle(how, o, v) ==
    /\ call' = [call EXCEPT !.done = TRUE,
                            !.out = [attempt |-> call.out.attempt, pc |-> how,
                                     log |-> Append(call.out.log, o), value |-> v]]
    /\ UNCHANGED <<store, checkVars, mainVars, runs>>

\* fetchContent: its one fetch settles.  A rejection leaves fetchContent.
FetchContentSettled ==
    /\ call.fn = "fetchContent"
    /\ ~call.done
    /\ \E o \in FetchOutcomes :
         CASE o = "ok" -> Settle("returned", o, "text")
           [] o = "rejects" -> Settle("threw", o, Undefined)
           [] OTHER -> Settle("returned", o, Null)

\* fetchWithRetry without its loop: the first failed attempt is the last.
LoopContinues_Never(n, retries) == FALSE

\* for (...; attempt <= retries; attempt++): another attempt follows this one.
LoopContinues(n, retries) == n + 1 <= retries

\* fetchWithRetry: the fetch of the current attempt settles.
FetchAttemptSettled ==
    /\ call.fn = "fetchWithRetry"
    /\ ~call.done
    /\ call.out.pc = "fetch"
    /\ \E o \in FetchOutcomes :
         IF o = "ok" THEN Settle("returned", o, "response")
         ELSE IF LoopContinues(call.out.attempt, Retries)
         THEN /\ call' = [call EXCEPT !.out.pc = "sleep",
                                      !.out.log = Append(@, o)]
              /\ UNCHANGED <<store, checkVars, mainVars, runs>>
         ELSE Settle("returned", o, Null)

\* fetchWithRetry: sleep(delayMs) is over, the loop goes round.
Slept ==
    /\ call.fn = "fetchWithRetry"
    /\ ~call.done
    /\ call.out.pc = "sleep"
    /\ call' = [call EXCEPT !.out.pc = "fetch", !.out.attempt = @ + 1]
    /\ UNCHANGED <<store, checkVars, mainVars, runs>>

InitFetch == NothingRun /\ call \in FetchCalls

NextFetch ==
    \/ FetchContentSettled
    \/ FetchAttemptSettled
    \/ Slept

SpecFetch == InitFetch /\ [][NextFetch]_vars

(***************************************************************************)
(* Concurrent callers of checkSource: invocations for distinct sources     *)
(* whose awaits interleave, as in Promise.all(sources.map(checkSource)).   *)
(***************************************************************************)
\* checkSource(source, { skipSave }) is invoked while invocations for other
\* sources may be awaiting.
ConcurrentCheck(s) ==
    /\ mainPc = "off"
    /\ pc[s] = "idle"
    /\ runs < MaxRuns
    /\ runs' = runs + 1
    /\ \E skipSave \in BOOLEAN : Begin(s, [skipSave |-> skipSave])
    /\ UNCHANGED mainVars
    /\ UNCHANGED call

\* The sources checked side by side: the directly fetched one and an
\* archive-backed one.
ConcurrentSources == {"claude-code", "gemini"}

NextConcurrent ==
    \/ \E s \in ConcurrentSources : ConcurrentCheck(s)
    \/ \E s \in ConcurrentSources : ApiReturn(s)
    \/ MarkdownFetched("claude-code")
    \/ CdxSettled("gemini")
    \/ SnapshotSettled("gemini")

SpecConcurrent == Init /\ [][NextConcurrent]_vars

(***************************************************************************)
(* Properties of checkSource and of main.                                  *)
(***************************************************************************)
\* The check of source s has resolved, and its parser had returned a result.
Parsed(s) == pc[s] = "done" /\ result[s] # NoResult

ParserTypeOf(s) == SourceOf(s).parserType

C5_NoOp ==
    \A s \in AllSourceIds :
        (Parsed(s) /\ result[s].success /\ result[s].version = storedVersion[s])
            => /\ ret[s] = Unchanged(SourceOf(s))
               /\ ~ret[s].hasChanged
               /\ ret[s].version = Undefined
               /\ ret[s].error = Undefined
               /\ writes[s] = 0
               /\ store[s] = storedVersion[s]

C5_Witness ==
    \E s \in AllSourceIds :
        /\ Parsed(s)
        /\ result[s].success
        /\ result[s].version = storedVersion[s]
        /\ ~options[s].skipSave

\* C6: with a watermark stored and the regression check not skipped, a
\* candidate that differs from the watermark and is not newer than it under
\* isNewerIdentifier makes the check return Unchanged without an error and
\* without writing the watermark.
C6_RegressionGuard ==
    \A s \in AllSourceIds :
        ( /\ Parsed(s)
          /\ result[s].success
          /\ storedVersion[s] # Null
          /\ ~result[s].skipRegressionCheck
          /\ result[s].version # storedVersion[s]
          /\ ~isNewerIdentifier(result[s].version, storedVersion[s], ParserTypeOf(s)) )
            => /\ ~ret[s].hasChanged
               /\ ret[s].error = Undefined
               /\ writes[s] = 0
               /\ store[s] = storedVersion[s]

C6_Witness ==
    \E s \in AllSourceIds :
        /\ Parsed(s)
        /\ result[s].success
        /\ storedVersion[s] # Null
        /\ ~result[s].skipRegressionCheck
        /\ result[s].version # storedVersion[s]
        /\ ~isNewerIdentifier(result[s].version, storedVersion[s], ParserTypeOf(s))
        /\ ~options[s].skipSave

\* C7: a check whose result carries an error does not change the stored
\* watermark: every step that changes a source's watermark is the step that
\* resolves that source's check to a Changed result without an error.
C7_FailuresNeverMutate ==
    [][\A s \in AllSourceIds :
         store'[s] # store[s]
            => /\ pc[s] # "done"
               /\ pc'[s] = "done"
               /\ ret'[s].hasChanged
               /\ ret'[s].error = Undefined]_vars

\* A check of a source with a stored watermark has resolved with an error
\* reported by its parser.
C7_Witness ==
    \E s \in AllSourceIds :
        /\ Parsed(s)
        /\ ~result[s].success
        /\ ret[s].error # Undefined
        /\ ~options[s].skipSave
        /\ store[s] # Null


\* The states a checkSource invocation passes through before its promise
\* has resolved, and the state of having resolved.
Pending == {"fetch", "cdx", "snapshot"}

\* The messages of the exceptions the collaborators raise.
ExceptionMessages ==
    {"Storage failure", "fetch failed", "terminated", "EACCES: permission denied"}

\* C8: checkSource never throws past its boundary: whatever the collaborators
\* do, an invocation is pending or has resolved to a CheckResult, and a
\* result reporting a collaborator's exception has hasChanged = false, the
\* exception's message as its error, and is not flagged transient.
C8_NeverThrows ==
    \A s \in AllSourceIds :
        /\ pc[s] \in {"idle", "done"} \cup Pending
        /\ pc[s] = "done"
             => /\ ret[s] # NoRet
                /\ ret[s].source = s
                /\ ret[s].hasChanged \in BOOLEAN
        /\ (pc[s] = "done" /\ ret[s].error \in ExceptionMessages)
             => /\ ret[s] = Caught(SourceOf(s), ret[s].error)
                /\ ~ret[s].hasChanged
                /\ ret[s].isTransient # "true"

\* A check has resolved after the store write threw.
C8_Witness ==
    \E s \in AllSourceIds :
        /\ pc[s] = "done"
        /\ writes[s] = 1
        /\ ret[s].error = "EACCES: permission denied"

\* The failures of the store, as opposed to those of fetching and extracting.
StoreErrors == {"Storage failure", "EACCES: permission denied"}

EntryIds(s) ==
    IF ParserTypeOf(s) = "markdown"
    THEN [i \in 1..Len(page[s].headings) |-> extractAllVersions(page[s])[i].version]
    ELSE IF s = "claude-blog"
    THEN [i \in 1..Len(extractBlogPosts(page[s])) |-> extractBlogPosts(page[s])[i].title]
    ELSE [i \in 1..Len(page[s].sections) |-> extractDateEntries(page[s])[i].date]

FirstRunIds(s) ==
    IF ParserTypeOf(s) = "markdown"
    THEN LET new == getVersionsSince(extractAllVersions(page[s]), Null)
         IN  [i \in 1..Len(new) |-> new[i].version]
    ELSE IF s = "claude-blog"
    THEN LET new == getNewBlogPosts(extractBlogPosts(page[s]), Null)
         IN  [i \in 1..Len(new) |-> new[i].title]
    ELSE LET new == getNewDateEntries(extractDateEntries(page[s]), Null, ParserTypeOf(s))
         IN  [i \in 1..Len(new) |-> new[i].date]

FirstRun(s) ==
    /\ Parsed(s)
    /\ page[s] # NoPage
    /\ storedVersion[s] = Null
    /\ EntryIds(s) # <<>>

C2_AtLeastOnce ==
    [][(slack = "pending" /\ (slack' = "failed" \/ mainPc' = "off"))
          => store'[cur] = prior]_vars

\* C3 as stated: no step of a CLI run started with --dry-run or --test, and
\* no step of a checkSource call with skipSave set, changes a watermark.
C3_DryRunNeverWrites ==
    [][\A s \in AllSourceIds :
         (options[s].skipSave \/ (mainPc # "off" /\ (args.dryRun \/ args.testMode)))
            => store'[s] = store[s]]_vars

\* What checkSource returns for the content its resolved check has read, when
\* it is invoked again right away: same snapshot, same page, the watermark
\* now in the store.
Recheck(s) ==
    LET source == SourceOf(s)
        parsed == IF source.parserType = "markdown"
                  THEN parseMarkdown(source, store[s], Content(page[s]))
                  ELSE parseWayback(source, store[s], snapshot[s], page[s])
    IN  Compare(source, store[s], parsed, source.parserType = "wayback",
                options[s]).ret

\* C4 as stated: when a check returns Changed and persists its watermark, an
\* immediately following check of the identical content returns Unchanged.
C4_NoReReport ==
    \A s \in SourceIds :
        (Parsed(s) /\ page[s] # NoPage /\ ret[s].hasChanged /\ writes[s] = 1)
            => ~Recheck(s).hasChanged


\* A returned call of fn.
Returned(fn) == call.fn = fn /\ call.done

\* C18 as stated: compareVersions is a total order on identifier strings,
\* parseable or not: compare(a, a) = 0, sign(compare(a, b)) =
\* -sign(compare(b, a)), and compare(a, b) > 0 and compare(b, c) > 0 imply
\* compare(a, c) > 0.
C18_TotalOrder ==
    Returned("compareVersions")
        => /\ call.out.aa = 0
           /\ Sign(call.out.ab) = -Sign(call.out.ba)
           /\ (call.out.ab > 0 /\ call.out.bc > 0) => call.out.ac > 0

\* The numeric triple of a parseable version string, and whether it carries
\* a pre-release tag.
Numbers(v) == <<CleanOrCoerce(v).major, CleanOrCoerce(v).minor, CleanOrCoerce(v).patch>>
Tagged(v) == CleanOrCoerce(v).pre # <<>>

\* x before y in the lexicographic order of tuples of numbers.
TupleLess(x, y) ==
    \E i \in 1..Len(x) : x[i] < y[i] /\ \A j \in 1..(i - 1) : x[j] = y[j]

\* C19: for parseable version strings compareVersions orders by numeric
\* major, then minor, then patch (1.10.0 > 1.9.0); with equal numbers a
\* tagged version is less than an untagged one; and a missing component
\* counts as 0 (compare("1.0", "1.0.0") = 0).
C19_VersionPrecedence ==
    Returned("compareVersions")
        => LET a == call.args[1]
               b == call.args[2]
           IN  (CleanOrCoerce(a).ok /\ CleanOrCoerce(b).ok)
                 => /\ TupleLess(Numbers(a), Numbers(b)) => call.out.ab = -1
                    /\ TupleLess(Numbers(b), Numbers(a)) => call.out.ab = 1
                    /\ (Numbers(a) = Numbers(b) /\ Tagged(a) /\ ~Tagged(b))
                         => call.out.ab = -1
                    /\ (Numbers(a) = Numbers(b) /\ ~Tagged(a) /\ ~Tagged(b))
                         => call.out.ab = 0
                    /\ (a = "1.10.0" /\ b = "1.9.0") => call.out.ab = 1
                    /\ (a = "1.0" /\ b = "1.0.0") => call.out.ab = 0

\* compareVersions returned for 1.10.0 against 1.9.0, where the numeric and
\* the textual order differ.
C19_Witness ==
    /\ Returned("compareVersions")
    /\ call.args[1] = "1.10.0"
    /\ call.args[2] = "1.9.0"
    /\ call.args[3] = "1.0.0-beta"
    /\ call.out.ab = 1

\* Year, month index and day of a Month D, YYYY string, and of the
\* YYYY.MM.DD strings.
MonthDayYear(id) ==
    <<MatchMonthDayYear(id).year, Months[MatchMonthDayYear(id).month],
      MatchMonthDayYear(id).day>>

IsMonthDayYear(id) ==
    MatchMonthDayYear(id).matched /\ MatchMonthDayYear(id).month \in DOMAIN Months

DottedDates == {"2025.01.10", "2025.01.17", "2025.12.17", "2026.01.20"}

YearMonthDay(id) ==
    CASE id = "2025.01.10" -> <<2025, 1, 10>>
      [] id = "2025.01.17" -> <<2025, 1, 17>>
      [] id = "2025.12.17" -> <<2025, 12, 17>>
      [] id = "2026.01.20" -> <<2026, 1, 20>>

\* C20: for a wayback source, when both identifiers parse as Month D, YYYY
\* isNewerIdentifier(a, b) holds exactly when a's calendar date is later
\* than b's; otherwise it is the byte-wise a > b, which for two YYYY.MM.DD
\* strings is the chronological order; and isNewerIdentifier(a, a) is false.
C20_DateOrdering ==
    Returned("isNewerIdentifier")
        => LET a == call.args[1]
               b == call.args[2]
           IN  /\ (IsMonthDayYear(a) /\ IsMonthDayYear(b))
                    => (call.out.ab <=> TupleLess(MonthDayYear(b), MonthDayYear(a)))
               /\ ~(IsMonthDayYear(a) /\ IsMonthDayYear(b))
                    => (call.out.ab <=> StrGT(a, b))
               /\ (a \in DottedDates /\ b \in DottedDates)
                    => (call.out.ab <=> TupleLess(YearMonthDay(b), YearMonthDay(a)))
               /\ ~call.out.aa

\* isNewerIdentifier returned true for a January date against a December
\* date of the year before.
C20_Witness ==
    /\ Returned("isNewerIdentifier")
    /\ call.args = <<"January 30, 2026", "December 31, 2025">>
    /\ call.out.ab


\* out consists of the elements of in at the positions in keep, in the order
\* of in.
IsSelection(out, in, keep) ==
    /\ Len(out) = Cardinality(keep)
    /\ \A i \in keep : out[Cardinality({j \in keep : j <= i})] = in[i]

\* C11: given a stored identifier S, getVersionsSince returns exactly the
\* entries whose identifier compares greater than S under compareVersions,
\* in input order, and the empty list when none does.
C11_VersionNovelty ==
    Returned("getVersionsSince")
        => LET in == call.args[1]
               S == call.args[2]
               newer == {i \in 1..Len(in) : compareVersions(in[i].version, S) > 0}
           IN  /\ IsSelection(call.out, in, newer)
               /\ newer = {} => call.out = <<>>

\* getVersionsSince returned one of two entries, the other being the stored
\* version itself.
C11_Witness ==
    /\ Returned("getVersionsSince")
    /\ Len(call.args[1]) = 2
    /\ call.args[1][2].version = call.args[2]
    /\ Len(call.out) = 1

\* The first position of a dated entry with the given date, of a post with
\* the given title; 0 when there is none.
DatePosition(entries, date) ==
    IF \E i \in 1..Len(entries) : entries[i].date = date
    THEN CHOOSE i \in 1..Len(entries) :
            entries[i].date = date /\ \A j \in 1..(i - 1) : entries[j].date # date
    ELSE 0

TitlePosition(posts, title) ==
    IF \E i \in 1..Len(posts) : posts[i].title = title
    THEN CHOOSE i \in 1..Len(posts) :
            posts[i].title = title /\ \A j \in 1..(i - 1) : posts[j].title # title
    ELSE 0

\* C12 as stated: given a stored date, the dated-page filter locates it by
\* exact match: at the first position the result is empty, at a later
\* position the result is the entries before it, and when it is absent from
\* a non-empty list the result is entry 0 alone.
C12_PositionNovelty ==
    Returned("getNewDateEntries")
        => LET entries == call.args[1]
               k == DatePosition(entries, call.args[2])
           IN  /\ k = 1 => call.out = <<>>
               /\ k > 1 => call.out = SubSeq(entries, 1, k - 1)
               /\ (k = 0 /\ entries # <<>>) => call.out = <<entries[1]>>

\* Year, month and day of a date of either form.
CalendarDay(date) ==
    IF date \in DottedDates THEN YearMonthDay(date) ELSE MonthDayYear(date)

\* The entries are strictly newest-first by calendar date.
NewestFirst(entries) ==
    \A i \in 1..(Len(entries) - 1) :
        TupleLess(CalendarDay(entries[i + 1].date), CalendarDay(entries[i].date))

\* C12, amended: given a stored date, getNewDateEntries returns exactly the
\* entries whose date is newer than the stored date under isNewerIdentifier,
\* in page order, whether or not the stored date occurs in the list.  On a
\* strictly newest-first list that holds the stored date at position k this
\* is the entries before k (none for k = 0); for a stored date that is absent
\* it is every newer entry, which can be none or more than one.
C12_DateNovelty ==
    Returned("getNewDateEntries")
        => LET entries == call.args[1]
               k == DatePosition(entries, call.args[2])
               newer == {i \in 1..Len(entries) :
                           isNewerIdentifier(entries[i].date, call.args[2], "wayback")}
           IN  /\ IsSelection(call.out, entries, newer)
               /\ (k > 0 /\ NewestFirst(entries))
                    => call.out = SubSeq(entries, 1, k - 1)

\* getNewDateEntries returned both entries of a newest-first list for a
\* stored date that is not in the list.
C12_Witness ==
    /\ Returned("getNewDateEntries")
    /\ call.args[2] = "December 31, 2025"
    /\ Len(call.args[1]) = 2
    /\ NewestFirst(call.args[1])
    /\ call.out = call.args[1]

\* C13: with the stored title first found at position k > 0 (counting from
\* 0), getNewBlogPosts returns the posts before it whose calendar date is
\* later than that of the post at k, in page order; found at position 0 the
\* result is empty; and when the matched post's date does not parse, all
\* posts before it are returned.
C13_BlogDateGuard ==
    Returned("getNewBlogPosts")
        => LET posts == call.args[1]
               k == TitlePosition(posts, call.args[2])
               later == {i \in 1..(k - 1) :
                           /\ IsMonthDayYear(posts[i].date)
                           /\ TupleLess(MonthDayYear(posts[k].date),
                                        MonthDayYear(posts[i].date))}
           IN  /\ k = 1 => call.out = <<>>
               /\ (k > 1 /\ IsMonthDayYear(posts[k].date))
                    => IsSelection(call.out, posts, later)
               /\ (k > 1 /\ ~IsMonthDayYear(posts[k].date))
                    => call.out = SubSeq(posts, 1, k - 1)

\* getNewBlogPosts dropped a post that stands before the stored one but is
\* dated earlier.
C13_Witness ==
    /\ Returned("getNewBlogPosts")
    /\ Len(call.args[1]) = 2
    /\ call.args[1][1].title = "Zeta retrospective"
    /\ call.args[1][2].title = "Alpha release"
    /\ call.args[2] = "Alpha release"
    /\ call.out = <<>>

\* C14: when a stored title is given and no post of a non-empty list has
\* that title, getNewBlogPosts returns the entry at position 0 alone.
C14_MissingWatermark ==
    Returned("getNewBlogPosts")
        => LET posts == call.args[1]
           IN  (posts # <<>> /\ \A i \in 1..Len(posts) : posts[i].title # call.args[2])
                 => call.out = <<posts[1]>>

C14_Witness ==
    /\ Returned("getNewBlogPosts")
    /\ Len(call.args[1]) = 2
    /\ call.args[1][1] # call.args[1][2]
    /\ call.args[2] = "Gone post"
    /\ call.out = <<call.args[1][1]>>

\* C15: the list extractBlogPosts returns holds no title twice, holds for
\* each title its last occurrence in the scan, and keeps the order of the
\* scan.
C15_BlogDedup ==
    Returned("extractBlogPosts")
        => LET scan == call.args[1].posts
               last == {i \in 1..Len(scan) :
                          \A j \in (i + 1)..Len(scan) : scan[j].title # scan[i].title}
           IN  /\ \A i, j \in 1..Len(call.out) :
                     call.out[i].title = call.out[j].title => i = j
               /\ IsSelection(call.out, scan, last)

\* extractBlogPosts returned the later of two posts with one title.
C15_Witness ==
    /\ Returned("extractBlogPosts")
    /\ call.args[1].posts = <<FeaturedPost,
                              [title |-> "Alpha release", date |-> "January 30, 2026",
                               url |-> "https://claude.com/blog/alpha-release"]>>
    /\ Len(call.out) = 1
    /\ call.out[1].url # Undefined

(***************************************************************************)
(* Properties of the Changed result: summary, watermark, display version.  *)
(***************************************************************************)
\* The novel entries of s's check, newest first: what the source's novelty
\* filter returns for the entries of the fetched page and the watermark the
\* check read.
Novel(s) ==
    IF ParserTypeOf(s) = "markdown"
    THEN getVersionsSince(extractAllVersions(page[s]), storedVersion[s])
    ELSE IF s = "claude-blog"
    THEN getNewBlogPosts(extractBlogPosts(page[s]), storedVersion[s])
    ELSE getNewDateEntries(extractDateEntries(page[s]), storedVersion[s],
                           ParserTypeOf(s))

\* The identifier of an entry of source s.
IdentifierOf(s, e) ==
    IF ParserTypeOf(s) = "markdown" THEN e.version
    ELSE IF s = "claude-blog" THEN e.title
    ELSE e.date

\* One entry as the summary of source s renders it.
Rendered(s, e) ==
    IF ParserTypeOf(s) = "markdown" THEN e.changes
    ELSE IF s = "claude-blog"
    THEN e.title \o " (" \o e.date \o "): "
           \o (IF Falsy(e.url) THEN SourceOf(s).releasePageUrl ELSE e.url)
    ELSE e.title \o " (" \o e.date \o ")"

Separator(s) == IF ParserTypeOf(s) = "markdown" THEN "\n\n---\n\n" ELSE "\n\n"

\* The text that closes the summary of a dated page.
Trailer(s) ==
    IF ParserTypeOf(s) # "markdown" /\ s # "claude-blog"
    THEN "\n\n" \o SourceOf(s).releasePageUrl
    ELSE ""

\* A non-empty newest-first list, written out oldest entry first.
RECURSIVE OldestFirst(_, _)
OldestFirst(s, novel) ==
    IF Len(novel) = 1 THEN Rendered(s, novel[1])
    ELSE OldestFirst(s, Tail(novel)) \o Separator(s) \o Rendered(s, novel[1])

\* The check of s has returned Changed.
ChangedResult(s) == Parsed(s) /\ ret[s].hasChanged

\* C16: on a Changed result of a check that extracted entries, the summary
\* lists exactly the novel entries, each once, oldest novel entry first (so
\* there is a novel entry), and the identifier persisted as the new watermark
\* is the identifier of the newest novel entry.
C16_SummaryAndWatermark ==
    \A s \in SourceIds :
        ChangedResult(s) /\ EntryIds(s) # <<>>
            => /\ Novel(s) # <<>>
               /\ ret[s].formattedChanges = OldestFirst(s, Novel(s)) \o Trailer(s)
               /\ ShouldSave(options[s]) => store[s] = IdentifierOf(s, Novel(s)[1])

\* The display value of one entry of source s.
DisplayOf(s, e) ==
    IF ParserTypeOf(s) = "markdown" THEN e.version
    ELSE e.title \o ":" \o e.date

\* C17: on a Changed result with exactly one novel entry the display version
\* is that entry's value; with more than one novel entry it is the range
\* from the oldest novel entry to the newest; for every extraction kind.
C17_DisplayVersion ==
    \A s \in SourceIds :
        ChangedResult(s) /\ Novel(s) # <<>>
            => ret[s].version =
                   IF Len(Novel(s)) = 1 THEN DisplayOf(s, Novel(s)[1])
                   ELSE DisplayOf(s, Novel(s)[Len(Novel(s))]) \o " -> "
                          \o DisplayOf(s, Novel(s)[1])

(***************************************************************************)
(* Properties of the state file.                                           *)
(***************************************************************************)
\* C21: writeStoredData(source, {identifier: s}) followed by
\* readStoredData(source) returns stored data whose identifier is exactly s,
\* and a missing file or content that is no valid JSON reads as null.
C21_RoundTrip ==
    /\ Returned("writeStoredData")
         => /\ ~call.out.written.threw
            /\ ~call.out.read.threw
            /\ ~call.out.read.value.null
            /\ call.out.read.value.identifier = call.args[2].identifier
    /\ Returned("readStoredData") /\ ~call.args[2].json
         => ~call.out.threw /\ call.out.value.null

(***************************************************************************)
(* Properties of the network operations.                                   *)
(***************************************************************************)
FetchOperation == call.fn \in {"fetchContent", "fetchWithRetry"}

\* Every attempt in the log failed: a status other than success, or a
\* network error.
AllFailed(log) == \A i \in 1..Len(log) : log[i] # "ok"

\* The attempts before the last one.
Earlier(log) == SubSeq(log, 1, Len(log) - 1)

DatedSources == {"gemini", "chatgpt"}

\* The check of s fetched a snapshot with no line-leading dated section and
\* no date anywhere in it.
NoDateAtAll(s) ==
    /\ s \in DatedSources
    /\ Parsed(s)
    /\ page[s] # NoPage
    /\ page[s].sections = <<>>
    /\ page[s].inline = Null

NothingExtracted(s) ==
    /\ s \in {"claude-code", "claude-blog"}
    /\ Parsed(s)
    /\ page[s] # NoPage
    /\ EntryIds(s) = <<>>

\* C24: when the fetched content yields no version entries (markdown) or no
\* blog posts (blog), checkSource returns hasChanged = false with a non-empty
\* error message, whether or not a watermark is stored, and writes nothing.
C24_ZeroEntriesFail ==
    \A s \in {"claude-code", "claude-blog"} :
        NothingExtracted(s)
            => /\ ~result[s].success
               /\ ~ret[s].hasChanged
               /\ ~Falsy(ret[s].error)
               /\ ret[s].error \notin StoreErrors
               /\ writes[s] = 0
               /\ store[s] = storedVersion[s]

\* A changelog without version headings was fetched while a watermark was
\* stored.
C24_Witness ==
    /\ NothingExtracted("claude-code")
    /\ ~page["claude-code"].empty
    /\ storedVersion["claude-code"] # Null
    /\ ret["claude-code"].error = "No versions found in changelog"

(***************************************************************************)
(* Properties of concurrent checks.                                        *)
(***************************************************************************)
\* Everything the check of s owns: its watermark and its locals.
Owned(s) ==
    <<store[s], pc[s], storedVersion[s], options[s], attempt[s], snapshot[s],
      page[s], result[s], ret[s], reads[s], writes[s]>>

\* The watermark of s as checkSource reads it.
Watermark(s) == IF Falsy(store[s]) THEN Null ELSE store[s]

\* What the check of s returns and leaves in the store when it runs alone on
\* the watermark read and the content fetched.
Alone(s) ==
    LET source == SourceOf(s)
        parsed == IF page[s] = NoPage THEN result[s]
                  ELSE IF source.parserType = "markdown"
                  THEN parseMarkdown(source, storedVersion[s], Content(page[s]))
                  ELSE parseWayback(source, storedVersion[s], snapshot[s], page[s])
        c == Compare(source, storedVersion[s], parsed,
                     source.parserType = "wayback", options[s])
    IN  [ret |-> c.ret,
         watermark |-> IF c.write THEN c.identifier ELSE storedVersion[s]]

\* While the check of s is in flight its watermark is the one it read; once
\* it has resolved (the store not failing), its result and its watermark are
\* those of the check run alone.
AsAlone(s) ==
    /\ pc[s] \in {"fetch", "cdx", "snapshot"} => Watermark(s) = storedVersion[s]
    /\ Parsed(s) /\ ret[s].error \notin StoreErrors
         => /\ ret[s] = Alone(s).ret
            /\ Watermark(s) = Alone(s).watermark

InFlight(s) == pc[s] \in {"fetch", "cdx", "snapshot"}

\* C26: within one check the watermark is read exactly once and before any
\* fetch; it is written at most once, only after the parser has computed the
\* novel subset and the candidate identifier, and exactly once iff the result
\* is Changed and skipSave is not set.
C26_StepOrder ==
    /\ [](\A s \in AllSourceIds :
            /\ pc[s] # "idle" => reads[s] = 1
            /\ writes[s] <= 1
            /\ InFlight(s) => writes[s] = 0 /\ result[s] = NoResult
            /\ pc[s] = "done"
                 => /\ (ret[s].hasChanged /\ ~options[s].skipSave) => writes[s] = 1
                    /\ writes[s] = 1
                         => /\ Parsed(s) /\ result[s].success
                            /\ ~options[s].skipSave
                            /\ ret[s].hasChanged \/ ret[s].error \in StoreErrors)
    /\ [][\A s \in AllSourceIds :
            /\ reads'[s] # reads[s] => pc[s] = "idle" \/ pc'[s] = "idle"
            /\ writes'[s] > writes[s] => InFlight(s) /\ pc'[s] = "done"
            /\ store'[s] # store[s]
                 => /\ InFlight(s)
                    /\ writes'[s] = writes[s] + 1
                    /\ result'[s].success
                    /\ store'[s] = result'[s].version]_vars

\* A check that read a stored watermark has fetched, parsed, returned Changed
\* and written once.
C26_Witness ==
    \E s \in SourceIds :
        /\ Parsed(s)
        /\ storedVersion[s] # Null
        /\ ret[s].hasChanged
        /\ reads[s] = 1
        /\ writes[s] = 1
        /\ store[s] = result[s].version

(***************************************************************************)
(* Properties of the CLI run: notification, iteration, exit status.        *)
(***************************************************************************)
\* The check of the current iteration returned Changed without an error.
ChangedNoError == ret[cur].hasChanged /\ Falsy(ret[cur].error)

\* C27: the CLI calls the notification sink exactly once for each check that
\* returned hasChanged = true without error outside dry-run, and never for an
\* Unchanged or failed check; a call is never repeated; sendSlackNotification
\* makes at most one POST, none without a webhook URL, and always hands back a
\* success/failure value.
C27_NotifyOnce ==
    /\ [](/\ slackPosts <= 1
          /\ slack \in {"none", "pending", "skipped"} => slackPosts = 0
          /\ slack = "sent" => slackPosts = 1
          /\ mainPc = "check" => slack = "none"
          /\ mainPc = "notify" <=> slack = "pending"
          /\ \A o \in SlackOutcomes :
                /\ sendSlackNotification(o).posts = IF o = "no-webhook" THEN 0 ELSE 1
                /\ sendSlackNotification(o).success <=> o = "ok"
                /\ ~sendSlackNotification(o).success
                     => ~Falsy(sendSlackNotification(o).error))
    /\ [][/\ (mainPc = "check" /\ mainPc' \in {"loop", "notify"})
               => (slack' = "pending" <=> ChangedNoError /\ ~args.dryRun)
          /\ slack' = "pending" => slack = "pending" \/ mainPc = "check"
          /\ (slack = "pending" /\ mainPc' # "off")
               => /\ mainPc' = "loop"
                  /\ slack' \in {"sent", "failed"}
                  /\ cur' = cur
          /\ slack \in {"sent", "failed", "skipped"} => slack' # "pending"]_vars

\* A notification whose POST failed: the run went on without posting again.
C27_Witness ==
    /\ mainPc = "loop"
    /\ slack = "failed"
    /\ slackPosts = 1
    /\ errorsEncountered = 1

\* The sources of the run that are checked already, the current one included.
Position == Len(SourceOrder) - Len(queue)

\* This step ends the current iteration with a non-transient error.
HardErrorStep ==
    /\ mainPc = "check"
    /\ mainPc' = "loop"
    /\ ~Falsy(ret[cur].error)
    /\ ret[cur].isTransient # "true"

\* This step ends the current iteration with a failed notification.
NotifyFailedStep == mainPc = "notify" /\ slack' = "failed"

\* C28: a run on all sources checks every source exactly once, in the order
\* of the table, also after a failed check or a failed notification; its
\* error count goes up exactly at a non-transient error and at a failed
\* notification, so it exits with a non-zero status iff there was one of
\* these, and never for transient errors alone.
C28_RunAndExit ==
    /\ [](mainPc # "off"
            => /\ queue = SubSeq(SourceOrder, Position + 1, Len(SourceOrder))
               /\ cur = IF Position = 0 THEN Null ELSE SourceOrder[Position]
               /\ \A s \in SourceIds : pc[s] # "idle" => s = cur)
    /\ [][/\ \A s \in SourceIds :
               (pc[s] = "idle" /\ pc'[s] # "idle")
                  => /\ mainPc = "loop"
                     /\ queue # <<>>
                     /\ s = Head(queue)
                     /\ queue' = Tail(queue)
          /\ queue' # queue /\ mainPc # "off"
               => queue' = Tail(queue) /\ pc'[Head(queue)] # "idle"
          /\ (mainPc \in {"check", "notify"}) => mainPc' # "off"
          /\ (mainPc # "off" /\ mainPc' # "off")
               => errorsEncountered' =
                     errorsEncountered
                       + (IF HardErrorStep \/ NotifyFailedStep THEN 1 ELSE 0)
          /\ (mainPc # "off" /\ mainPc' = "off")
               => /\ mainPc = "loop"
                  /\ queue = <<>>
                  /\ exitCode' = IF errorsEncountered > 0 THEN "1" ELSE "0"]_vars

\* The check of the last source is under way after a non-transient error and
\* a failed notification of earlier sources.
C28_Witness ==
    /\ mainPc = "check"
    /\ cur = SourceOrder[Len(SourceOrder)]
    /\ queue = <<>>
    /\ errorsEncountered = 2

(***************************************************************************)
(* Properties of what a Changed result reports.                            *)
(***************************************************************************)
\* C29: a Changed result always reports something: whenever a check that
\* extracted entries returns hasChanged = true, the novel subset its parser
\* computed was non-empty and formattedChanges is a non-empty string; so a
\* blog check whose stored title stands at position k > 0 with every earlier
\* post removed by the date guard is Unchanged and leaves the watermark.
C29_ChangedReportsSomething ==
    \A s \in SourceIds :
        /\ ChangedResult(s) /\ EntryIds(s) # <<>>
             => Novel(s) # <<>> /\ ~Falsy(ret[s].formattedChanges)
        /\ (s = "claude-blog" /\ Parsed(s) /\ page[s] # NoPage
              /\ FindIndex(extractBlogPosts(page[s]), storedVersion[s]) > 1
              /\ Novel(s) = <<>>)
             => ~ret[s].hasChanged /\ store[s] = storedVersion[s]

\* Year, month and day of a snapshot timestamp YYYYMMDDhhmmss.
TimestampDay(id) ==
    CASE id = "20250115093000" -> <<2025, 1, 15>>
      [] id = "20260115123456" -> <<2026, 1, 15>>

\* The calendar day an identifier of a dated page stands for.
DayOf(id) ==
    IF id \in {SnapshotTimestamp(s) : s \in DatedSources} THEN TimestampDay(id)
    ELSE CalendarDay(id)

\* C30: for a dated-page source the persisted watermark is never a value
\* against which a chronologically later date of the source's format compares
\* as not newer, whatever checks went before (the timestamp fallback
\* included); and a check whose page has a line-leading entry dated later
\* than the watermark returns Changed and includes that entry.
C30_LaterDatesReported ==
    \A s \in DatedSources :
        /\ \A d \in PageDates(s) :
              (store[s] # Null /\ TupleLess(DayOf(store[s]), DayOf(d)))
                 => isNewerIdentifier(d, store[s], ParserTypeOf(s))
        /\ (Parsed(s) /\ page[s] # NoPage /\ storedVersion[s] # Null
              /\ ret[s].error = Undefined)
             => \A i \in 1..Len(page[s].sections) :
                   TupleLess(DayOf(storedVersion[s]), DayOf(page[s].sections[i]))
                      => /\ ret[s].hasChanged
                         /\ \E j \in 1..Len(Novel(s)) :
                               Novel(s)[j].date = page[s].sections[i]

=============================================================================
